---- MODULE Spec2Model ----
(***************************************************************************)
(* Chat-log analysis pipeline: the line parser (custom-chat-parser.js),    *)
(* the temporal and relationship analysers (data-analyzer.js) and the      *)
(* orchestrating pipeline (process-chat.js).                               *)
(***************************************************************************)
EXTENDS Integers, Sequences, FiniteSets, TLC

(***************************************************************************)
(* Bounds of the model.                                                    *)
(***************************************************************************)
\* longest transcript, in lines, of the parser specification
MaxLines == 3
\* lines before / after the header of the time-parsing specification
MaxPad == 1
\* longest message list of the temporal specification
MaxMessages == 3
\* most distinct message days of the relationship specification
MaxDays == 61
\* longest message list of the pipeline specification
MaxChatMessages == 2
\* longest message list of the sentiment specification
MaxSentimentMessages == 3

VARIABLES
    \* parseCustomChat
    lines,           \* chatText.split('\n')
    idx,             \* number of lines the forEach has processed
    messages,        \* const messages = []
    currentMessage,  \* let currentMessage = null
    ppc,             \* "idle" | "loop" | "done"
    \* analyzeTemporalPatterns
    tMessages,              \* the messages argument
    tIndex,                 \* number of messages the forEach has processed
    messagesByDay,          \* day -> count
    messagesByHour,         \* hour of day -> count
    responseTimesBySender,  \* sender -> list of response times (minutes)
    avgResponseTimes,       \* sender -> mean, as sum / count
    tpc,                    \* "idle" | "loop" | "done"
    \* analyzeRelationshipPatterns
    rMessages,       \* the messages argument
    dayMessages,     \* messagesByDay: day -> list of messages
    sortedDays,      \* Object.keys(messagesByDay).sort()
    windowMetrics,   \* const windowMetrics = []
    patternShifts,   \* const patternShifts = []
    ri,              \* the loop variable i of the running for loop
    rpc,             \* "idle" | "group" | "windows" | "shifts" | "done"
    \* runPipeline / processAnalysis and the files they work on
    entry,           \* the function that was called
    chatFile,        \* the chat export at inputFilePath
    parsedFile,      \* outputDir/parsed_messages.json
    analysisFile,    \* outputDir/analysis_results.json
    visFile,         \* outputDir/visualization_data.json
    messagesRet,     \* const messages = processChat(...)
    analysisRet,     \* const analysis = processAnalysis(...)
    visRet,          \* const visData = processVisualizationData(...)
    result,          \* what runPipeline returned
    log,             \* the step banners and abort messages on the console
    pipc,            \* "idle" | "step1" | "step2" | "step3" | "direct" | "done"
    \* analyzeSentiment
    sMessages,             \* the messages argument
    sIndex,                \* number of messages the forEach has processed
    sentimentByMonth,      \* month -> list of scores
    sentimentBySender,     \* sender -> list of scores
    sentimentTimeline,     \* const sentimentTimeline = []
    avgSentimentByMonth,   \* month -> mean, as sum / count
    avgSentimentBySender,  \* sender -> mean, as sum / count
    spc                    \* "idle" | "loop" | "done"

parserVars == <<lines, idx, messages, currentMessage, ppc>>
temporalVars == <<tMessages, tIndex, messagesByDay, messagesByHour,
                  responseTimesBySender, avgResponseTimes, tpc>>
relationVars == <<rMessages, dayMessages, sortedDays, windowMetrics, patternShifts, ri, rpc>>
pipelineVars == <<entry, chatFile, parsedFile, analysisFile, visFile, messagesRet,
                  analysisRet, visRet, result, log, pipc>>
sentimentVars == <<sMessages, sIndex, sentimentByMonth, sentimentBySender, sentimentTimeline,
                   avgSentimentByMonth, avgSentimentBySender, spc>>
vars == <<parserVars, temporalVars, relationVars, pipelineVars, sentimentVars>>

\* a component that is not running
ParserIdle ==
    lines = <<>> /\ idx = 0 /\ messages = <<>> /\ currentMessage = [open |-> FALSE] /\ ppc = "idle"
TemporalIdle ==
    /\ tMessages = <<>> /\ tIndex = 0 /\ messagesByDay = <<>> /\ messagesByHour = <<>>
    /\ responseTimesBySender = <<>> /\ avgResponseTimes = <<>> /\ tpc = "idle"
RelationIdle ==
    /\ rMessages = <<>> /\ dayMessages = <<>> /\ sortedDays = <<>> /\ windowMetrics = <<>>
    /\ patternShifts = <<>> /\ ri = 0 /\ rpc = "idle"
PipelineIdle ==
    /\ entry = "none" /\ chatFile = <<>> /\ parsedFile = <<>> /\ analysisFile = <<>>
    /\ visFile = <<>> /\ messagesRet = <<>> /\ analysisRet = <<>> /\ visRet = <<>>
    /\ result = <<>> /\ log = <<>> /\ pipc = "idle"
SentimentIdle ==
    /\ sMessages = <<>> /\ sIndex = 0 /\ sentimentByMonth = <<>> /\ sentimentBySender = <<>>
    /\ sentimentTimeline = <<>> /\ avgSentimentByMonth = <<>> /\ avgSentimentBySender = <<>>
    /\ spc = "idle"

(***************************************************************************)
(* custom-chat-parser.js                                                   *)
(***************************************************************************)

\* A line of the transcript.  kind says which of the three shapes the text
\* has: whitespace only, a bracketed header "[date, time] sender: body", or
\* any other text.
NoDate == <<>>
NoTime == [fields |-> <<>>, ampm |-> "AM"]

BlankLine == [kind |-> "blank", date |-> NoDate, time |-> NoTime, sender |-> "", body |-> ""]
TextLine(t) == [kind |-> "text", date |-> NoDate, time |-> NoTime, sender |-> "", body |-> t]
Header(d, t, s, c) == [kind |-> "header", date |-> d, time |-> t, sender |-> s, body |-> c]

\* time text "H:MM:SS PM" / "H:MM PM": the numbers between the colons and
\* the designator
TimeText(f, ap) == [fields |-> f, ampm |-> ap]

\* line.trim() === ''
IsBlank(line) == line.kind = "blank"

\* line.match(customPattern): the header shape with a seconds field
MatchCustom(line) == line.kind = "header" /\ Len(line.time.fields) = 3

\* line.match(altPattern): the header shape without a seconds field
MatchAlt(line) == line.kind = "header" /\ Len(line.time.fields) = 2

\* let match = line.match(customPattern); if (!match) match = line.match(altPattern)
Matches(line) == IF MatchCustom(line) THEN TRUE ELSE MatchAlt(line)

\* sender.trim()
Trim(s) == IF s = "Bob " THEN "Bob" ELSE s

\* year = parseInt(dateParts[2]); if (year < 100) year += 2000
FullYear(yy) == IF yy < 100 THEN yy + 2000 ELSE yy

To24HourNoMidnight(hour, isPM) ==
    IF isPM /\ hour < 12 THEN hour + 12 ELSE hour

\* the 12-hour adjustment of the parsed hour
To24Hour(hour, isPM) ==
    IF isPM /\ hour < 12 THEN hour + 12
    ELSE IF ~isPM /\ hour = 12 THEN 0
    ELSE hour

\* second = 0; if (timeParts.length > 2) second = parseInt(timeParts[2]...)
ParseSecond(timeParts) == IF Len(timeParts) > 2 THEN timeParts[3] ELSE 0

\* the arguments of new Date(year, month, day, hour, minute, second)
ParseTimestamp(date, time) ==
    LET isPM == time.ampm = "PM"
        timeParts == time.fields
    IN  [year |-> FullYear(date[3]), month |-> date[2] - 1, day |-> date[1],
         hour |-> To24Hour(timeParts[1], isPM), minute |-> timeParts[2],
         second |-> ParseSecond(timeParts)]

MediaMarkers == {"image omitted", "video omitted", "audio omitted",
                 "sticker omitted", "GIF omitted", "document omitted"}
DeletedMarkers == {"This message was deleted", "You deleted this message"}

\* content.includes(marker), content being a list of text pieces; a piece of
\* the model contains a marker exactly when it is that marker
Includes(content, markers) == \E k \in 1..Len(content) : content[k] \in markers

NoMsg == [open |-> FALSE]

\* currentMessage = { timestamp, date, time, sender, content, isMedia, ... }
NewMessage(line, lineIndex) ==
    [open |-> TRUE,
     timestamp |-> ParseTimestamp(line.date, line.time),
     date |-> line.date,
     time |-> line.time,
     sender |-> Trim(line.sender),
     content |-> <<line.body>>,
     isMedia |-> Includes(<<line.body>>, MediaMarkers),
     isDeleted |-> Includes(<<line.body>>, DeletedMarkers),
     lineNumber |-> lineIndex + 1]

AppendNoNewline(msg, line) == [msg EXCEPT !.content = @ \o <<line.body>>]

AppendAndReflag(msg, line) ==
    [msg EXCEPT !.content = @ \o <<"\n", line.body>>,
                !.isMedia = Includes(msg.content \o <<"\n", line.body>>, MediaMarkers),
                !.isDeleted = Includes(msg.content \o <<"\n", line.body>>, DeletedMarkers)]

\* currentMessage.content += '\n' + line
AppendContinuation(msg, line) == [msg EXCEPT !.content = @ \o <<"\n", line.body>>]

\* if (currentMessage) messages.push(currentMessage)
PushIfOpen(msgs, cur) == IF cur.open THEN Append(msgs, cur) ELSE msgs

OrphanOpens(cur, line, lineIndex) ==
    [open |-> TRUE,
     timestamp |-> [year |-> 0, month |-> 0, day |-> 0, hour |-> 0, minute |-> 0, second |-> 0],
     date |-> NoDate, time |-> NoTime, sender |-> "",
     content |-> <<line.body>>, isMedia |-> FALSE, isDeleted |-> FALSE,
     lineNumber |-> lineIndex + 1]

\* the final else branch: console.log(`Warning: Line ...`), nothing else
OrphanWarning(cur, line, lineIndex) == cur

BlankClosesMessage(st) == [messages |-> PushIfOpen(st.messages, st.cur), cur |-> NoMsg]

\* if (line.trim() === '') return
BlankSkipped(st) == st

\* One call of the forEach callback on (line, lineIndex), as a function of
\* the pair (messages, currentMessage).
ProcessLine(st, line, lineIndex) ==
    IF IsBlank(line) THEN BlankSkipped(st)
    ELSE IF Matches(line)
         THEN [messages |-> PushIfOpen(st.messages, st.cur),
               cur |-> NewMessage(line, lineIndex)]
    ELSE IF st.cur.open
         THEN [messages |-> st.messages, cur |-> AppendContinuation(st.cur, line)]
    ELSE [messages |-> st.messages, cur |-> OrphanWarning(st.cur, line, lineIndex)]

\* the line the callback is about to see (lineIndex = idx)
NextLine == lines[idx + 1]

\* the forEach has a line left
InLoop == ppc = "loop" /\ idx < Len(lines)

LoopStep ==
    /\ InLoop
    /\ LET st == ProcessLine([messages |-> messages, cur |-> currentMessage], NextLine, idx)
       IN  /\ messages' = st.messages
           /\ currentMessage' = st.cur
    /\ idx' = idx + 1
    /\ UNCHANGED <<lines, ppc, temporalVars, relationVars, pipelineVars, sentimentVars>>

\* if (line.trim() === '') return
SkipBlank == InLoop /\ IsBlank(NextLine) /\ LoopStep

\* if (match) { ... }
HeaderLine == InLoop /\ ~IsBlank(NextLine) /\ Matches(NextLine) /\ LoopStep

\* else if (currentMessage) { ... }
ContinuationLine ==
    InLoop /\ ~IsBlank(NextLine) /\ ~Matches(NextLine) /\ currentMessage.open /\ LoopStep

\* else { console.log(Warning ...) }
OrphanLine ==
    InLoop /\ ~IsBlank(NextLine) /\ ~Matches(NextLine) /\ ~currentMessage.open /\ LoopStep

EndOfInputNoPush ==
    /\ ppc = "loop"
    /\ idx = Len(lines)
    /\ ppc' = "done"
    /\ UNCHANGED <<lines, idx, messages, currentMessage, temporalVars, relationVars, pipelineVars, sentimentVars>>

\* after the forEach: push the last message, return messages
EndOfInput ==
    /\ ppc = "loop"
    /\ idx = Len(lines)
    /\ messages' = PushIfOpen(messages, currentMessage)
    /\ ppc' = "done"
    /\ UNCHANGED <<lines, idx, currentMessage, temporalVars, relationVars, pipelineVars, sentimentVars>>

ParserNext == SkipBlank \/ HeaderLine \/ ContinuationLine \/ OrphanLine \/ EndOfInput

\* ---- inputs of the parser specification ----
Senders == {"Ann", "Bob "}
Bodies == {"hi", "image omitted", "This message was deleted"}
Texts == {"more", "image omitted", "This message was deleted"}
Date1 == <<1, 2, 23>>
Times == {TimeText(<<12, 30, 15>>, "AM"), TimeText(<<9, 15>>, "PM")}
ParseLineSet ==
    {BlankLine} \cup {TextLine(t) : t \in Texts}
    \cup {Header(Date1, t, s, c) : t \in Times, s \in Senders, c \in Bodies}

SeqsUpTo(S, n) == UNION {[1..k -> S] : k \in 0..n}

ParserStart(input) ==
    /\ lines = input
    /\ idx = 0
    /\ messages = <<>>
    /\ currentMessage = NoMsg
    /\ ppc = "loop"

ParseInit ==
    /\ \E input \in SeqsUpTo(ParseLineSet, MaxLines) : ParserStart(input)
    /\ TemporalIdle
    /\ RelationIdle
    /\ PipelineIdle
    /\ SentimentIdle

SpecParse == ParseInit /\ [][ParserNext]_vars

\* parseCustomChat as a function of the lines: the forEach from the state st
\* on lines k.., then the final push
RECURSIVE ForEachFrom(_, _, _)
ForEachFrom(ls, k, st) ==
    IF k > Len(ls) THEN st
    ELSE ForEachFrom(ls, k + 1, ProcessLine(st, ls[k], k - 1))

ParseLines(ls) ==
    LET st == ForEachFrom(ls, 1, [messages |-> <<>>, cur |-> NoMsg])
    IN  PushIfOpen(st.messages, st.cur)

\* ---- inputs of the time-parsing specification: one header with any clock
\* reading the header shape admits around 1..12, between other lines ----
ClockHours == 0..13
ClockTexts ==
    {TimeText(<<h, 30>>, ap) : h \in ClockHours, ap \in {"AM", "PM"}}
    \cup {TimeText(<<h, 30, 15>>, ap) : h \in ClockHours, ap \in {"AM", "PM"}}
PadLines == SeqsUpTo({BlankLine, TextLine("more")}, MaxPad)

TimeInit ==
    /\ \E pre \in PadLines, post \in PadLines, t \in ClockTexts :
            ParserStart(pre \o <<Header(Date1, t, "Ann", "hi")>> \o post)
    /\ TemporalIdle
    /\ RelationIdle
    /\ PipelineIdle
    /\ SentimentIdle

SpecTime == TimeInit /\ [][ParserNext]_vars

(***************************************************************************)
(* Claims about parseCustomChat                                            *)
(***************************************************************************)
\* positions (1-based) of the header lines of the transcript
HeaderPositions == {i \in 1..Len(lines) : lines[i].kind = "header"}
\* the position of the k-th header line
KthHeader(k) == CHOOSE i \in HeaderPositions : Cardinality({j \in HeaderPositions : j < i}) = k - 1
\* the last line of the message opened at header position p
LastLineOf(p) ==
    IF \E j \in HeaderPositions : j > p
    THEN (CHOOSE j \in HeaderPositions : j > p /\ \A j2 \in HeaderPositions : j2 > p => j <= j2) - 1
    ELSE Len(lines)
\* the text lines lo..hi, each preceded by a newline
RECURSIVE Folded(_, _)
Folded(lo, hi) ==
    IF lo > hi THEN <<>>
    ELSE (IF lines[lo].kind = "text" THEN <<"\n", lines[lo].body>> ELSE <<>>) \o Folded(lo + 1, hi)
\* the messages without their line numbers
StripLineNumbers(msgs) == [k \in 1..Len(msgs) |-> [msgs[k] EXCEPT !.lineNumber = 0]]
\* the transcript without the lines of set D of positions
RECURSIVE Without(_, _, _)
Without(ls, k, D) ==
    IF k > Len(ls) THEN <<>>
    ELSE (IF k \in D THEN <<>> ELSE <<ls[k]>>) \o Without(ls, k + 1, D)
BlankPositions == {i \in 1..Len(lines) : lines[i].kind = "blank"}
\* text lines before the first header line
LeadingOrphans ==
    {i \in 1..Len(lines) : lines[i].kind = "text" /\ \A j \in HeaderPositions : i < j}

\* C1: the result holds exactly one message per header line, in the order of
\* the header lines (the k-th message was opened by the k-th header line),
\* the message still open at end of input included; while the loop runs the
\* finished messages plus the open one count the header lines seen so far.
C1_OneMessagePerHeader ==
    /\ ppc = "done" =>
        /\ Len(messages) = Cardinality(HeaderPositions)
        /\ \A k \in 1..Len(messages) :
            /\ messages[k].lineNumber = KthHeader(k)
            /\ messages[k].content[1] = lines[KthHeader(k)].body
            /\ messages[k].time = lines[KthHeader(k)].time
    /\ ppc = "loop" =>
        Len(messages) + (IF currentMessage.open THEN 1 ELSE 0)
            = Cardinality({i \in HeaderPositions : i <= idx})

\* three header lines and no other line gave three messages
C1_Witness ==
    /\ ppc = "done"
    /\ Len(lines) = 3
    /\ HeaderPositions = {1, 2, 3}
    /\ Len(messages) = 3
    /\ messages[1].sender # messages[2].sender

\* C2: the content of each message is its header's content followed, for each
\* non-blank non-header line up to the next header or the end, in order, by
\* a newline and the raw line.
C2_ContinuationFolding ==
    ppc = "done" =>
        \A k \in 1..Len(messages) :
            LET p == messages[k].lineNumber
            IN  messages[k].content = <<lines[p].body>> \o Folded(p + 1, LastLineOf(p))

\* a header followed by two different continuation lines
C2_Witness ==
    /\ ppc = "done"
    /\ Len(lines) = 3
    /\ lines[1].kind = "header" /\ lines[2].kind = "text" /\ lines[3].kind = "text"
    /\ lines[2].body # lines[3].body
    /\ Len(messages) = 1
    /\ messages[1].content = <<lines[1].body, "\n", lines[2].body, "\n", lines[3].body>>

\* C3: the step on a blank line changes neither the output list nor the open
\* message, and the result equals the result for the transcript without its
\* blank lines, line numbers apart.
C3_BlankLinesSkipped ==
    /\ [][(InLoop /\ lines[idx + 1].kind = "blank")
            => (messages' = messages /\ currentMessage' = currentMessage)]_vars
    /\ [](ppc = "done" =>
            StripLineNumbers(messages)
                = StripLineNumbers(ParseLines(Without(lines, 1, BlankPositions))))

\* a blank line between a header and its continuation line
C3_Witness ==
    /\ ppc = "done"
    /\ Len(lines) = 3
    /\ lines[1].kind = "header" /\ lines[2].kind = "blank" /\ lines[3].kind = "text"
    /\ Len(messages) = 1
    /\ messages[1].content = <<lines[1].body, "\n", lines[3].body>>

\* C4: the step on a non-blank non-header line with no open message leaves
\* the output list unchanged and no message open, and the result equals the
\* result for the transcript without the text lines before its first header,
\* line numbers apart (none of them is in any content).
C4_OrphanLinesDropped ==
    /\ [][(InLoop /\ lines[idx + 1].kind = "text" /\ ~currentMessage.open)
            => (messages' = messages /\ ~currentMessage'.open)]_vars
    /\ [](ppc = "done" =>
            /\ StripLineNumbers(messages)
                = StripLineNumbers(ParseLines(Without(lines, 1, LeadingOrphans)))
            /\ (HeaderPositions = {} => messages = <<>>))

\* two orphan lines, then a header
C4_Witness ==
    /\ ppc = "done"
    /\ Len(lines) = 3
    /\ lines[1].kind = "text" /\ lines[2].kind = "text" /\ lines[3].kind = "header"
    /\ Len(messages) = 1
    /\ messages[1].content = <<lines[3].body>>
    /\ messages[1].lineNumber = 3

\* the messages built so far, the open one included
BuiltMessages ==
    {messages[k] : k \in 1..Len(messages)}
    \cup (IF currentMessage.open THEN {currentMessage} ELSE {})

\* C5: for a clock hour h in 1..12 the parsed hour is 0 for 12 AM, 12 for
\* 12 PM, h + 12 for PM with h < 12 and h for AM with h < 12, so it is in
\* 0..23; the seconds are 0 when the header has no seconds field.
C5_TwelveHourClock ==
    \A m \in BuiltMessages :
        LET h == m.time.fields[1]
            ap == m.time.ampm
        IN  /\ h \in 1..12 =>
                /\ (h = 12 /\ ap = "AM") => m.timestamp.hour = 0
                /\ (h = 12 /\ ap = "PM") => m.timestamp.hour = 12
                /\ (h < 12 /\ ap = "PM") => m.timestamp.hour = h + 12
                /\ (h < 12 /\ ap = "AM") => m.timestamp.hour = h
                /\ m.timestamp.hour \in 0..23
            /\ Len(m.time.fields) = 2 => m.timestamp.second = 0
            /\ Len(m.time.fields) = 3 => m.timestamp.second = m.time.fields[3]

\* "12:30 AM", without seconds, was parsed to hour 0, second 0
C5_Witness ==
    /\ ppc = "done"
    /\ \E k \in 1..Len(messages) :
        /\ messages[k].time = TimeText(<<12, 30>>, "AM")
        /\ messages[k].timestamp.hour = 0
        /\ messages[k].timestamp.second = 0

\* C13: isMedia and isDeleted of a message are those of its header line's
\* content alone, and a step that folds a continuation line into the open
\* message changes its content only: isMedia, isDeleted, timestamp, date,
\* time, sender and lineNumber stay, also when the continuation line holds a
\* media or deletion marker.
C13_FlagsFromHeaderOnly ==
    /\ [](\A k \in 1..Len(messages) :
            LET header == lines[messages[k].lineNumber]
            IN  /\ header.kind = "header"
                /\ messages[k].isMedia = (header.body = "image omitted")
                /\ messages[k].isDeleted = (header.body = "This message was deleted"))
    /\ [][(/\ ppc = "loop"
           /\ currentMessage.open
           /\ idx < Len(lines)
           /\ lines[idx + 1].kind = "text")
          => /\ currentMessage'.open
             /\ currentMessage'.content # currentMessage.content
             /\ currentMessage'.isMedia = currentMessage.isMedia
             /\ currentMessage'.isDeleted = currentMessage.isDeleted
             /\ currentMessage'.timestamp = currentMessage.timestamp
             /\ currentMessage'.date = currentMessage.date
             /\ currentMessage'.time = currentMessage.time
             /\ currentMessage'.sender = currentMessage.sender
             /\ currentMessage'.lineNumber = currentMessage.lineNumber
             /\ messages' = messages]_vars

\* a plain header followed by a media marker and a deletion marker on
\* continuation lines: the markers are in the content, the flags are false
C13_Witness ==
    /\ ppc = "done"
    /\ Len(lines) = 3
    /\ lines[1].kind = "header" /\ lines[1].body = "hi"
    /\ lines[2] = TextLine("image omitted")
    /\ lines[3] = TextLine("This message was deleted")
    /\ Len(messages) = 1
    /\ messages[1].content = <<"hi", "\n", "image omitted", "\n", "This message was deleted">>
    /\ ~messages[1].isMedia
    /\ ~messages[1].isDeleted

(***************************************************************************)
(* data-analyzer.js: analyzeTemporalPatterns                               *)
(***************************************************************************)
\* Timestamps are whole minutes since the epoch (UTC); a message is
\* [sender, timestamp].
MinutesPerDay == 24 * 60

\* timestamp.toISOString().slice(0, 10): the day the timestamp falls in
DayOf(timestamp) == timestamp \div MinutesPerDay

\* timestamp.getHours()
HourOf(timestamp) == (timestamp % MinutesPerDay) \div 60

\* obj[key] = obj[key] || 0; obj[key]++
Increment(counts, key) ==
    IF key \in DOMAIN counts THEN [counts EXCEPT ![key] = @ + 1]
    ELSE (key :> 1) @@ counts

\* obj[key] = obj[key] || []; obj[key].push(x)
PushTo(lists, key, x) ==
    IF key \in DOMAIN lists THEN [lists EXCEPT ![key] = Append(@, x)]
    ELSE (key :> <<x>>) @@ lists

\* (timestamp - prevTimestamp) / 1000 / 60
ResponseTime(message, prevMessage) == message.timestamp - prevMessage.timestamp

IsReasonableInclusive(responseTime) == responseTime <= 24 * 60

\* if (responseTime < 24 * 60)
IsReasonable(responseTime) == responseTime < 24 * 60

\* if (sender !== prevSender)
IsResponse(message, prevMessage) == message.sender # prevMessage.sender

\* lines 40-56 of the callback: the response-time table after message index
\* (0-based) of msgs
AddResponseTime(table, msgs, index) ==
    IF index > 0
    THEN LET message == msgs[index + 1]
             prevMessage == msgs[index]
         IN  IF IsResponse(message, prevMessage)
                /\ IsReasonable(ResponseTime(message, prevMessage))
             THEN PushTo(table, message.sender, ResponseTime(message, prevMessage))
             ELSE table
    ELSE table

TInLoop == tpc = "loop" /\ tIndex < Len(tMessages)

\* one call of the forEach callback
TemporalStep ==
    /\ TInLoop
    /\ LET message == tMessages[tIndex + 1]
       IN  /\ messagesByDay' = Increment(messagesByDay, DayOf(message.timestamp))
           /\ messagesByHour' = Increment(messagesByHour, HourOf(message.timestamp))
    /\ responseTimesBySender' = AddResponseTime(responseTimesBySender, tMessages, tIndex)
    /\ tIndex' = tIndex + 1
    /\ UNCHANGED <<tMessages, avgResponseTimes, tpc, parserVars, relationVars, pipelineVars, sentimentVars>>

\* index 0: no previous message
FirstMessage == TInLoop /\ tIndex = 0 /\ TemporalStep

\* sender === prevSender
SameSenderMessage ==
    /\ TInLoop /\ tIndex > 0
    /\ ~IsResponse(tMessages[tIndex + 1], tMessages[tIndex])
    /\ TemporalStep

\* a response whose time is counted
CountedResponse ==
    /\ TInLoop /\ tIndex > 0
    /\ IsResponse(tMessages[tIndex + 1], tMessages[tIndex])
    /\ IsReasonable(ResponseTime(tMessages[tIndex + 1], tMessages[tIndex]))
    /\ TemporalStep

\* a response whose time is not counted
DiscardedResponse ==
    /\ TInLoop /\ tIndex > 0
    /\ IsResponse(tMessages[tIndex + 1], tMessages[tIndex])
    /\ ~IsReasonable(ResponseTime(tMessages[tIndex + 1], tMessages[tIndex]))
    /\ TemporalStep

RECURSIVE SumSeq(_)
\* times.reduce((sum, time) => sum + time, 0)
SumSeq(q) == IF q = <<>> THEN 0 ELSE q[1] + SumSeq(Tail(q))

\* avgResponseTimes[sender] = sum / times.length, for each entry
AverageResponseTimes ==
    /\ tpc = "loop"
    /\ tIndex = Len(tMessages)
    /\ avgResponseTimes' =
         [s \in DOMAIN responseTimesBySender |->
            [sum |-> SumSeq(responseTimesBySender[s]),
             count |-> Len(responseTimesBySender[s])]]
    /\ tpc' = "done"
    /\ UNCHANGED <<tMessages, tIndex, messagesByDay, messagesByHour,
                   responseTimesBySender, parserVars, relationVars, pipelineVars, sentimentVars>>

TemporalNext ==
    \/ FirstMessage \/ SameSenderMessage \/ CountedResponse \/ DiscardedResponse
    \/ AverageResponseTimes

\* ---- inputs of the temporal specification ----
TSenders == {"Ann", "Bob"}
TStamps == {0, 1, MinutesPerDay - 1, MinutesPerDay, MinutesPerDay + 1}
TMessageSet == [sender : TSenders, timestamp : TStamps]

TemporalInit ==
    /\ \E input \in SeqsUpTo(TMessageSet, MaxMessages) : tMessages = input
    /\ tIndex = 0
    /\ messagesByDay = <<>>
    /\ messagesByHour = <<>>
    /\ responseTimesBySender = <<>>
    /\ avgResponseTimes = <<>>
    /\ tpc = "loop"
    /\ ParserIdle
    /\ RelationIdle
    /\ PipelineIdle
    /\ SentimentIdle

SpecTemporal == TemporalInit /\ [][TemporalNext]_vars

(***************************************************************************)
(* Claims about analyzeTemporalPatterns                                    *)
(***************************************************************************)
\* the samples a sender has in the table
SamplesOf(s) == IF s \in DOMAIN responseTimesBySender THEN responseTimesBySender[s] ELSE <<>>

\* the differences timestamp[i] - timestamp[i-1], in order, over the pairs
\* (i-1, i), i <= n, whose later message is from s, whose earlier one is
\* not, and whose difference is below 1440 minutes
RECURSIVE ExpectedSamples(_, _)
ExpectedSamples(s, n) ==
    IF n < 2 THEN <<>>
    ELSE LET d == tMessages[n].timestamp - tMessages[n - 1].timestamp
         IN  ExpectedSamples(s, n - 1)
             \o (IF tMessages[n].sender = s /\ tMessages[n - 1].sender # s /\ d < 1440
                 THEN <<d>> ELSE <<>>)

\* C6: a same-sender pair adds no sample; a cross-sender pair adds the
\* difference to the later sender's samples exactly when it is below 1440
\* minutes; every stored sample is below 1440 and the per-sender average is
\* taken over exactly these samples.
C6_ResponseTimeFilter ==
    /\ tpc \in {"loop", "done"} =>
        /\ \A s \in TSenders : SamplesOf(s) = ExpectedSamples(s, tIndex)
        /\ \A s \in DOMAIN responseTimesBySender :
              \A k \in 1..Len(responseTimesBySender[s]) : responseTimesBySender[s][k] < 1440
    /\ tpc = "done" =>
        /\ DOMAIN avgResponseTimes = {s \in TSenders : ExpectedSamples(s, Len(tMessages)) # <<>>}
        /\ \A s \in DOMAIN avgResponseTimes :
              /\ avgResponseTimes[s].sum = SumSeq(ExpectedSamples(s, Len(tMessages)))
              /\ avgResponseTimes[s].count = Len(ExpectedSamples(s, Len(tMessages)))

\* a reply exactly 1440 minutes later was left out, the reply one minute
\* after it was counted
C6_Witness ==
    /\ tpc = "done"
    /\ Len(tMessages) = 3
    /\ tMessages[1].sender # tMessages[2].sender
    /\ tMessages[2].timestamp - tMessages[1].timestamp = 1440
    /\ tMessages[3].sender # tMessages[2].sender
    /\ tMessages[3].timestamp - tMessages[2].timestamp = 1
    /\ DOMAIN responseTimesBySender = {tMessages[3].sender}
    /\ responseTimesBySender[tMessages[3].sender] = <<1>>

(***************************************************************************)
(* data-analyzer.js: analyzeRelationshipPatterns                           *)
(***************************************************************************)
\* const WINDOW_SIZE = 30
WINDOW_SIZE == 30

\* Math.ceil(WINDOW_SIZE / 2)
WindowStep == (WINDOW_SIZE + 1) \div 2

\* JavaScript numbers that are quotients of integers: a fraction num / den
\* with den > 0, or one of the values a division by zero gives.
Rat(n, d) == [kind |-> "number", num |-> n, den |-> d]
NaN == [kind |-> "NaN", num |-> 0, den |-> 1]
Infinity(sign) == [kind |-> "Infinity", num |-> sign, den |-> 1]
Abs(n) == IF n < 0 THEN 0 - n ELSE n
Sign(n) == IF n < 0 THEN 0 - 1 ELSE IF n > 0 THEN 1 ELSE 0

\* x - y
JsSub(x, y) == Rat(x.num * y.den - y.num * x.den, x.den * y.den)

\* x / y: 0/0 is NaN, x/0 is +-Infinity
JsDiv(x, y) ==
    IF y.num = 0
    THEN (IF x.num = 0 THEN NaN ELSE Infinity(Sign(x.num)))
    ELSE Rat(x.num * y.den * Sign(y.num), x.den * Abs(y.num))

ExceedsNoAbs(change) ==
    \/ change.kind = "Infinity" /\ change.num > 0
    \/ change.kind = "number" /\ 10 * change.num > 3 * change.den

\* Math.abs(change) > 0.3 (false for NaN)
Exceeds(change) ==
    \/ change.kind = "Infinity"
    \/ change.kind = "number" /\ 10 * Abs(change.num) > 3 * change.den

\* the set of days of the messages
DaysOf(msgs) == {DayOf(msgs[k].timestamp) : k \in 1..Len(msgs)}

\* messagesByDay[day].push(message), for each message in order
GroupByDay(msgs) ==
    [d \in DaysOf(msgs) |-> SelectSeq(msgs, LAMBDA m : DayOf(m.timestamp) = d)]

RECURSIVE SortAscending(_)
\* Object.keys(messagesByDay).sort()
SortAscending(S) ==
    IF S = {} THEN <<>>
    ELSE LET lo == CHOOSE x \in S : \A y \in S : x <= y
         IN  <<lo>> \o SortAscending(S \ {lo})

\* lines 248-259
GroupAndSort ==
    /\ rpc = "group"
    /\ dayMessages' = GroupByDay(rMessages)
    /\ sortedDays' = SortAscending(DaysOf(rMessages))
    /\ ri' = 0
    /\ rpc' = "windows"
    /\ UNCHANGED <<rMessages, windowMetrics, patternShifts, parserVars, temporalVars, pipelineVars, sentimentVars>>

\* sortedDays.slice(i, i + WINDOW_SIZE)
Slice(q, from, to) ==
    SubSeq(q, from + 1, IF to < Len(q) THEN to ELSE Len(q))

RECURSIVE Flatten(_, _, _)
\* windowDays.forEach(day => windowMessages.push(...messagesByDay[day]))
Flatten(byDay, days, k) ==
    IF k > Len(days) THEN <<>>
    ELSE byDay[days[k]] \o Flatten(byDay, days, k + 1)

\* messagesBySender[sender]++ over the window's messages
CountBySender(msgs) ==
    [s \in {msgs[k].sender : k \in 1..Len(msgs)} |->
        Cardinality({k \in 1..Len(msgs) : msgs[k].sender = s})]

ResponseCountAllPairs(msgs) == Cardinality({j \in 2..Len(msgs) : TRUE})

\* for (j = 1; j < length; j++) if (sender[j] !== sender[j-1]) responseCount++
ResponseCount(msgs) ==
    Cardinality({j \in 2..Len(msgs) : msgs[j].sender # msgs[j - 1].sender})

\* the object pushed to windowMetrics for the window starting at index i
WindowMetricsAt(byDay, days, i) ==
    LET windowDays == Slice(days, i, i + WINDOW_SIZE)
        windowMessages == Flatten(byDay, windowDays, 1)
    IN  [startDate |-> windowDays[1],
         endDate |-> windowDays[Len(windowDays)],
         messageCount |-> Len(windowMessages),
         messagesBySender |-> CountBySender(windowMessages),
         messagesPerDay |-> JsDiv(Rat(Len(windowMessages), 1), Rat(Len(windowDays), 1)),
         responseFrequency |->
            JsDiv(Rat(ResponseCount(windowMessages), 1), Rat(Len(windowMessages), 1))]

WindowLoopTestPartial(i, n) == i < n

\* i < sortedDays.length - WINDOW_SIZE
WindowLoopTest(i, n) == i < n - WINDOW_SIZE

\* one pass of the window loop
ComputeWindow ==
    /\ rpc = "windows"
    /\ WindowLoopTest(ri, Len(sortedDays))
    /\ windowMetrics' = Append(windowMetrics, WindowMetricsAt(dayMessages, sortedDays, ri))
    /\ ri' = ri + WindowStep
    /\ UNCHANGED <<rMessages, dayMessages, sortedDays, patternShifts, rpc,
                   parserVars, temporalVars, pipelineVars, sentimentVars>>

\* the window loop ends; the shift loop starts at i = 1
WindowsDone ==
    /\ rpc = "windows"
    /\ ~WindowLoopTest(ri, Len(sortedDays))
    /\ ri' = 1
    /\ rpc' = "shifts"
    /\ UNCHANGED <<rMessages, dayMessages, sortedDays, windowMetrics, patternShifts,
                   parserVars, temporalVars, pipelineVars, sentimentVars>>

\* (curr - prev) / prev
RelativeChange(curr, prev) == JsDiv(JsSub(curr, prev), prev)

FrequencyChange(prevWindow, currWindow) ==
    RelativeChange(currWindow.messagesPerDay, prevWindow.messagesPerDay)

ResponseChange(prevWindow, currWindow) ==
    RelativeChange(currWindow.responseFrequency, prevWindow.responseFrequency)

\* if (Math.abs(frequencyChange) > 0.3 || Math.abs(responseChange) > 0.3)
IsShift(prevWindow, currWindow) ==
    \/ Exceeds(FrequencyChange(prevWindow, currWindow))
    \/ Exceeds(ResponseChange(prevWindow, currWindow))

ShiftRecordDatedByPrev(prevWindow, currWindow) ==
    [date |-> prevWindow.startDate,
     metrics |-> [frequencyChange |-> RelativeChange(currWindow.messagesPerDay,
                                                     prevWindow.messagesPerDay),
                  responseChange |-> RelativeChange(currWindow.responseFrequency,
                                                    prevWindow.responseFrequency)],
     prevWindow |-> prevWindow,
     currWindow |-> currWindow]

\* the object pushed to patternShifts
ShiftRecord(prevWindow, currWindow) ==
    [date |-> currWindow.startDate,
     metrics |-> [frequencyChange |-> FrequencyChange(prevWindow, currWindow),
                  responseChange |-> ResponseChange(prevWindow, currWindow)],
     prevWindow |-> prevWindow,
     currWindow |-> currWindow]

InShiftLoop == rpc = "shifts" /\ ri < Len(windowMetrics)

\* one pass of the shift loop that records a shift
RecordShift ==
    /\ InShiftLoop
    /\ IsShift(windowMetrics[ri], windowMetrics[ri + 1])
    /\ patternShifts' = Append(patternShifts, ShiftRecord(windowMetrics[ri], windowMetrics[ri + 1]))
    /\ ri' = ri + 1
    /\ UNCHANGED <<rMessages, dayMessages, sortedDays, windowMetrics, rpc,
                   parserVars, temporalVars, pipelineVars, sentimentVars>>

\* one pass of the shift loop that records nothing
NoShift ==
    /\ InShiftLoop
    /\ ~IsShift(windowMetrics[ri], windowMetrics[ri + 1])
    /\ ri' = ri + 1
    /\ UNCHANGED <<rMessages, dayMessages, sortedDays, windowMetrics, patternShifts, rpc,
                   parserVars, temporalVars, pipelineVars, sentimentVars>>

\* return { windowMetrics, patternShifts }
ShiftsDone ==
    /\ rpc = "shifts"
    /\ ~(ri < Len(windowMetrics))
    /\ rpc' = "done"
    /\ UNCHANGED <<rMessages, dayMessages, sortedDays, windowMetrics, patternShifts, ri,
                   parserVars, temporalVars, pipelineVars, sentimentVars>>

RelationNext ==
    \/ GroupAndSort \/ ComputeWindow \/ WindowsDone \/ RecordShift \/ NoShift \/ ShiftsDone

\* ---- inputs of the relationship specification: n distinct days, the first
\* WINDOW_SIZE of them with one list of senders per day, the later ones with
\* another; the list is in chronological order or reversed ----
RECURSIVE Alternating(_)
\* n messages of a day, the senders taking turns
Alternating(n) ==
    IF n = 0 THEN <<>>
    ELSE Append(Alternating(n - 1), IF n % 2 = 1 THEN "Ann" ELSE "Bob")
OnlyAnn == <<"Ann">>
DayPatternPairs ==
    {<<OnlyAnn, OnlyAnn>>, <<OnlyAnn, Alternating(2)>>, <<Alternating(2), OnlyAnn>>,
     <<Alternating(2), Alternating(2)>>, <<Alternating(3), Alternating(2)>>,
     <<Alternating(10), Alternating(14)>>, <<Alternating(10), Alternating(18)>>,
     <<OnlyAnn, <<"Ann", "Ann">>>>}

\* the messages of day d (1-based), one minute apart
DayMessages(d, senders) ==
    [k \in 1..Len(senders) |->
        [sender |-> senders[k], timestamp |-> d * MinutesPerDay + k]]

RECURSIVE Chronological(_, _, _)
Chronological(d, n, pair) ==
    IF d > n THEN <<>>
    ELSE DayMessages(d, IF d <= WINDOW_SIZE THEN pair[1] ELSE pair[2])
         \o Chronological(d + 1, n, pair)

Reverse(q) == [k \in 1..Len(q) |-> q[Len(q) + 1 - k]]

RelationInit ==
    /\ \E n \in 0..MaxDays, pair \in DayPatternPairs, reversed \in BOOLEAN :
          rMessages = IF reversed THEN Reverse(Chronological(1, n, pair))
                      ELSE Chronological(1, n, pair)
    /\ dayMessages = <<>>
    /\ sortedDays = <<>>
    /\ windowMetrics = <<>>
    /\ patternShifts = <<>>
    /\ ri = 0
    /\ rpc = "group"
    /\ ParserIdle
    /\ TemporalIdle
    /\ PipelineIdle
    /\ SentimentIdle

SpecRelation == RelationInit /\ [][RelationNext]_vars

(***************************************************************************)
(* Claims about analyzeRelationshipPatterns                                *)
(***************************************************************************)
\* the 0-based index in sortedDays of a window's first day
StartIndex(w) == (CHOOSE k \in 1..Len(sortedDays) : sortedDays[k] = w.startDate) - 1

\* C7: with N distinct days a window is produced for exactly the start
\* indices 0, 15, 30, ... with start + 30 <= N, one window each, in order.
C7_WindowStarts ==
    rpc \in {"shifts", "done"} =>
        LET N == Len(sortedDays)
            starts == {st \in 0..N : st % 15 = 0 /\ st + 30 <= N}
        IN  /\ Len(windowMetrics) = Cardinality(starts)
            /\ {StartIndex(windowMetrics[k]) : k \in 1..Len(windowMetrics)} = starts

\* |(c - p) / p| > 0.3 for fractions c and p with positive denominators, a
\* division of a non-zero difference by zero counting as an infinite change
ChangeAbove30Percent(c, p) ==
    IF p.num = 0 THEN c.num # 0
    ELSE 10 * Abs(c.num * p.den - p.num * c.den) > 3 * c.den * Abs(p.num)

\* the pair of adjacent windows (k, k + 1) has a recorded shift
Recorded(k) ==
    \E j \in 1..Len(patternShifts) :
        /\ patternShifts[j].prevWindow = windowMetrics[k]
        /\ patternShifts[j].currWindow = windowMetrics[k + 1]

\* the fraction f equals the integer n
Equals(f, n) == f.kind = "number" /\ f.num = n * f.den

\* the adjacent pairs the shift loop has dealt with
PairsDone == IF rpc = "done" THEN Len(windowMetrics) - 1 ELSE ri - 1

\* C8: a shift is recorded for a pair of adjacent windows if and only if the
\* relative change of messagesPerDay or of responseFrequency is above 0.3 in
\* absolute value; 10 -> 14 messages per day gives a shift, 10 -> 12 with the
\* response-frequency change within the threshold gives none.
C8_ShiftThreshold ==
    rpc \in {"shifts", "done"} =>
        /\ \A k \in 1..PairsDone :
            LET prev == windowMetrics[k]
                curr == windowMetrics[k + 1]
                within == ~ChangeAbove30Percent(curr.responseFrequency, prev.responseFrequency)
            IN  /\ Recorded(k) <=>
                      \/ ChangeAbove30Percent(curr.messagesPerDay, prev.messagesPerDay)
                      \/ ChangeAbove30Percent(curr.responseFrequency, prev.responseFrequency)
                /\ (Equals(prev.messagesPerDay, 10) /\ Equals(curr.messagesPerDay, 14))
                      => Recorded(k)
                /\ (Equals(prev.messagesPerDay, 10) /\ Equals(curr.messagesPerDay, 12) /\ within)
                      => ~Recorded(k)
        /\ Len(patternShifts) =
              Cardinality({k \in 1..PairsDone :
                  \/ ChangeAbove30Percent(windowMetrics[k + 1].messagesPerDay,
                                          windowMetrics[k].messagesPerDay)
                  \/ ChangeAbove30Percent(windowMetrics[k + 1].responseFrequency,
                                          windowMetrics[k].responseFrequency)})

\* windows with 10 and then 14 messages per day, the response frequency
\* within the threshold, and the shift recorded
C8_Witness ==
    /\ rpc = "done"
    /\ \E k \in 1..(Len(windowMetrics) - 1) :
        /\ Equals(windowMetrics[k].messagesPerDay, 10)
        /\ Equals(windowMetrics[k + 1].messagesPerDay, 14)
        /\ ~ChangeAbove30Percent(windowMetrics[k + 1].responseFrequency,
                                 windowMetrics[k].responseFrequency)
        /\ Recorded(k)

\* C12: no recorded shift carries a NaN frequencyChange or responseChange:
\* a previous value of zero is either skipped or gives an infinite change.
C12_NoNaNInShifts ==
    \A j \in 1..Len(patternShifts) :
        /\ patternShifts[j].metrics.frequencyChange.kind # "NaN"
        /\ patternShifts[j].metrics.responseChange.kind # "NaN"

\* the positions k of windowMetrics such that shift j is of the adjacent
\* pair (k, k + 1)
PairsOf(j) ==
    {k \in 1..(Len(windowMetrics) - 1) :
        /\ patternShifts[j].prevWindow = windowMetrics[k]
        /\ patternShifts[j].currWindow = windowMetrics[k + 1]}

\* C14: every recorded shift is of two adjacent windows, the current one
\* right after the previous one in windowMetrics, and its date is the
\* current window's startDate; the shifts are in strictly increasing order
\* of date, and no adjacent pair has more than one shift.
C14_ShiftsLinkAdjacentWindows ==
    /\ \A j \in 1..Len(patternShifts) :
        /\ PairsOf(j) # {}
        /\ patternShifts[j].date = patternShifts[j].currWindow.startDate
    /\ \A j \in 1..(Len(patternShifts) - 1) : patternShifts[j].date < patternShifts[j + 1].date
    /\ \A i, j \in 1..Len(patternShifts) : (PairsOf(i) \cap PairsOf(j) # {}) => i = j

\* three windows and a shift for each of the two adjacent pairs
C14_Witness ==
    /\ rpc = "done"
    /\ Len(windowMetrics) = 3
    /\ Len(patternShifts) = 2
    /\ patternShifts[1].date = windowMetrics[2].startDate
    /\ patternShifts[2].date = windowMetrics[3].startDate
    /\ patternShifts[1].currWindow = patternShifts[2].prevWindow

\* the positions in the input of the messages of day d
PositionsOn(d) == {i \in 1..Len(rMessages) : DayOf(rMessages[i].timestamp) = d}
First(P) == CHOOSE i \in P : \A m \in P : i <= m
Last(P) == CHOOSE i \in P : \A m \in P : m <= i

\* the messages of day d that are followed, without another message of day d
\* between them in the input, by a message of day d of another sender
RepliedWithin(d) ==
    LET P == PositionsOn(d)
    IN  {i \in P : \E j \in P :
            /\ i < j
            /\ \A m \in P : m <= i \/ j <= m
            /\ rMessages[i].sender # rMessages[j].sender}

\* the r-th day (r in 1..WINDOW_SIZE) of the k-th window
WindowDay(k, r) == sortedDays[(k - 1) * WindowStep + r]

\* the days whose last message in the input and the first message of the
\* window's next day are of different senders
RepliedAcross(k) ==
    {r \in 1..(WINDOW_SIZE - 1) :
        rMessages[Last(PositionsOn(WindowDay(k, r)))].sender
            # rMessages[First(PositionsOn(WindowDay(k, r + 1)))].sender}

RECURSIVE SumOver(_, _)
\* the sum of f over the set S
SumOver(f, S) ==
    IF S = {} THEN 0
    ELSE LET x == CHOOSE y \in S : TRUE IN f[x] + SumOver(f, S \ {x})

\* the metrics of the k-th window are those of the claim
WindowAsClaimed(k) ==
    LET w == windowMetrics[k]
        days == {WindowDay(k, r) : r \in 1..WINDOW_SIZE}
        inWindow == {i \in 1..Len(rMessages) : DayOf(rMessages[i].timestamp) \in days}
        responses == SumOver([d \in days |-> Cardinality(RepliedWithin(d))], days)
                        + Cardinality(RepliedAcross(k))
    IN  /\ w.startDate = WindowDay(k, 1)
        /\ w.endDate = WindowDay(k, WINDOW_SIZE)
        /\ w.messageCount = Cardinality(inWindow)
        /\ w.messageCount = SumOver(w.messagesBySender, DOMAIN w.messagesBySender)
        /\ \A s \in DOMAIN w.messagesBySender :
              w.messagesBySender[s] = Cardinality({i \in inWindow : rMessages[i].sender = s})
        /\ w.responseFrequency.kind = "number"
        /\ w.responseFrequency.num * w.messageCount = responses * w.responseFrequency.den
        /\ w.messagesPerDay.kind = "number"
        /\ w.messagesPerDay.num * Cardinality(days) = w.messageCount * w.messagesPerDay.den

\* C15: of each window, messageCount is the number of messages whose day is
\* one of the window's days and the sum of the per-sender counts;
\* responseFrequency is the number of adjacent pairs of different senders in
\* the window's messages (days ascending, input order within a day) divided
\* by messageCount; messagesPerDay is messageCount divided by the number of
\* distinct days of the window.
C15_WindowMetrics ==
    /\ rpc # "group" =>
          \A a, b \in 1..Len(sortedDays) : a < b => sortedDays[a] < sortedDays[b]
    /\ (rpc = "windows" /\ windowMetrics # <<>>) => WindowAsClaimed(Len(windowMetrics))
    /\ rpc = "done" => \A k \in 1..Len(windowMetrics) : WindowAsClaimed(k)

\* a window of 75 messages, 45 of Ann and 30 of Bob, on 30 days, with 59
\* adjacent pairs of different senders: 2.5 messages per day
C15_Witness ==
    /\ rpc = "done"
    /\ \E k \in 1..Len(windowMetrics) :
        /\ windowMetrics[k].messageCount = 75
        /\ windowMetrics[k].messagesBySender = [s \in {"Ann", "Bob"} |-> IF s = "Ann" THEN 45 ELSE 30]
        /\ windowMetrics[k].responseFrequency.num * 75 = 59 * windowMetrics[k].responseFrequency.den
        /\ windowMetrics[k].messagesPerDay.num * 2 = 5 * windowMetrics[k].messagesPerDay.den

\* the distinct days of the input from a window's first to its last day
SpannedDays(w) == {d \in DaysOf(rMessages) : w.startDate <= d /\ d <= w.endDate}

\* C16: every window spans exactly 30 distinct days and has at least 30
\* messages, so messagesPerDay >= 1 and 0 <= responseFrequency < 1; neither
\* the division by messageCount nor the division by the previous window's
\* messagesPerDay is a division by zero.
C16_FullWindows ==
    /\ \A k \in 1..Len(windowMetrics) :
        LET w == windowMetrics[k]
        IN  /\ Cardinality(SpannedDays(w)) = 30
            /\ w.messageCount >= 30
            /\ w.messagesPerDay.kind = "number"
            /\ w.messagesPerDay.den > 0
            /\ w.messagesPerDay.num >= w.messagesPerDay.den
            /\ w.responseFrequency.kind = "number"
            /\ w.responseFrequency.den > 0
            /\ 0 <= w.responseFrequency.num
            /\ w.responseFrequency.num < w.responseFrequency.den
    /\ \A j \in 1..Len(patternShifts) :
        /\ patternShifts[j].prevWindow.messagesPerDay.num # 0
        /\ patternShifts[j].metrics.frequencyChange.kind = "number"

\* a window of 30 messages of one sender (one message per day, no
\* response), a later window with responses, and a recorded shift
C16_Witness ==
    /\ rpc = "done"
    /\ Len(patternShifts) > 0
    /\ \E k \in 1..Len(windowMetrics) :
        /\ windowMetrics[k].messageCount = 30
        /\ windowMetrics[k].messagesPerDay.num = windowMetrics[k].messagesPerDay.den
        /\ windowMetrics[k].responseFrequency.num = 0
    /\ \E k \in 1..Len(windowMetrics) : windowMetrics[k].responseFrequency.num > 0

(***************************************************************************)
(* process-chat.js: runPipeline, with processChat, processAnalysis,        *)
(* analyzeWhatsAppChat and processVisualizationData                        *)
(***************************************************************************)
\* null, and a value that is not null
Null == [isNull |-> TRUE]
Value(v) == [isNull |-> FALSE, value |-> v]
\* undefined: what a function without a return value gives, or an array
\* element past the end
Undefined == [isUndefined |-> TRUE]

\* a file of the output directory: absent, or holding data; written says
\* that a writeFileSync of this run put the data there
NoFile == [exists |-> FALSE, written |-> FALSE, data |-> <<>>]
OldFile(d) == [exists |-> TRUE, written |-> FALSE, data |-> d]
WrittenFile(d) == [exists |-> TRUE, written |-> TRUE, data |-> d]

\* JSON.stringify(messages): a Date becomes its ISO string
ToJson(msgs) ==
    [k \in 1..Len(msgs) |-> [sender |-> msgs[k].sender, timestamp |-> [iso |-> msgs[k].timestamp]]]

\* new Date(message.timestamp) of a message read from JSON
NewDate(isoString) == isoString.iso

\* processChat(inputFilePath, parsedDataPath): parse, save, return the
\* messages; null when reading or writing throws
ProcessChat(chat, parsed, writeOk) ==
    IF ~chat.readable THEN [ret |-> Null, file |-> parsed]
    ELSE IF ~writeOk THEN [ret |-> Null, file |-> parsed]
    ELSE [ret |-> Value(chat.messages), file |-> WrittenFile(ToJson(chat.messages))]

\* messages[i] of a JavaScript array (0-based)
At(msgs, i) == IF i >= 0 /\ i < Len(msgs) THEN msgs[i + 1] ELSE Undefined

AnalyzeWhatsAppChatGuarded(msgs) ==
    IF Len(msgs) = 0
    THEN [threw |-> FALSE,
          report |-> [basicStats |-> [messageCount |-> 0, uniqueSenders |-> {}, durationMinutes |-> 0]]]
    ELSE [threw |-> FALSE,
          report |-> [basicStats |->
              [messageCount |-> Len(msgs),
               uniqueSenders |-> {msgs[k].sender : k \in 1..Len(msgs)},
               durationMinutes |-> NewDate(msgs[Len(msgs)].timestamp) - NewDate(msgs[1].timestamp)]]]

\* analyzeWhatsAppChat(messages): the basic statistics of the report (the
\* analyses of the report are the other components); reading .timestamp
\* of undefined throws a TypeError
AnalyzeWhatsAppChat(msgs) ==
    LET firstMessage == At(msgs, 0)
        lastMessage == At(msgs, Len(msgs) - 1)
    IN  IF lastMessage = Undefined \/ firstMessage = Undefined
        THEN [threw |-> TRUE, report |-> <<>>]
        ELSE [threw |-> FALSE,
              report |-> [basicStats |->
                  [messageCount |-> Len(msgs),
                   uniqueSenders |-> {msgs[k].sender : k \in 1..Len(msgs)},
                   durationMinutes |-> NewDate(lastMessage.timestamp) - NewDate(firstMessage.timestamp)]]]

\* processAnalysis(parsedDataPath, analysisPath): read, analyse, save,
\* return the analysis; null when anything in the try block throws
ProcessAnalysis(parsed, analysisF, writeOk) ==
    IF ~parsed.exists THEN [ret |-> Null, file |-> analysisF]
    ELSE LET analysis == AnalyzeWhatsAppChat(parsed.data)
         IN  IF analysis.threw THEN [ret |-> Null, file |-> analysisF]
             ELSE IF ~writeOk THEN [ret |-> Null, file |-> analysisF]
             ELSE [ret |-> Value(analysis.report), file |-> WrittenFile(analysis.report)]

\* prepareVisualizationData(analysis)
PrepareVisualizationData(analysis) == [basicStats |-> analysis.basicStats]

\* processVisualizationData(analysisPath, visualizationDataPath)
ProcessVisualizationData(analysisF, visF, writeOk) ==
    IF ~analysisF.exists THEN [ret |-> Null, file |-> visF]
    ELSE IF ~writeOk THEN [ret |-> Null, file |-> visF]
    ELSE LET visData == PrepareVisualizationData(analysisF.data)
         IN  [ret |-> Value(visData), file |-> WrittenFile(visData)]

ParseFailedNullOnly(ret) == ret.isNull

\* if (!messages || messages.length === 0)
ParseFailed(ret) == ret.isNull \/ Len(ret.value) = 0

\* Step 1 of runPipeline and the test that follows it
ParseStage ==
    /\ pipc = "step1"
    /\ \E writeOk \in BOOLEAN :
        LET r == ProcessChat(chatFile, parsedFile, writeOk)
        IN  /\ messagesRet' = r.ret
            /\ parsedFile' = r.file
            /\ IF ParseFailed(r.ret)
               THEN /\ log' = log \o <<"Step 1", "Pipeline aborted">>
                    /\ result' = Undefined
                    /\ pipc' = "done"
               ELSE /\ log' = Append(log, "Step 1")
                    /\ result' = result
                    /\ pipc' = "step2"
    /\ UNCHANGED <<entry, chatFile, analysisFile, visFile, analysisRet, visRet,
                   parserVars, temporalVars, relationVars, sentimentVars>>

\* Step 2 of runPipeline and the test that follows it
AnalysisStage ==
    /\ pipc = "step2"
    /\ \E writeOk \in BOOLEAN :
        LET r == ProcessAnalysis(parsedFile, analysisFile, writeOk)
        IN  /\ analysisRet' = r.ret
            /\ analysisFile' = r.file
            /\ IF r.ret.isNull
               THEN /\ log' = log \o <<"Step 2", "Pipeline aborted">>
                    /\ result' = Undefined
                    /\ pipc' = "done"
               ELSE /\ log' = Append(log, "Step 2")
                    /\ result' = result
                    /\ pipc' = "step3"
    /\ UNCHANGED <<entry, chatFile, parsedFile, visFile, messagesRet, visRet,
                   parserVars, temporalVars, relationVars, sentimentVars>>

\* Step 3 of runPipeline, the test that follows it and the return
VisualizationStage ==
    /\ pipc = "step3"
    /\ \E writeOk \in BOOLEAN :
        LET r == ProcessVisualizationData(analysisFile, visFile, writeOk)
        IN  /\ visRet' = r.ret
            /\ visFile' = r.file
            /\ IF r.ret.isNull
               THEN /\ log' = log \o <<"Step 3", "Pipeline aborted">>
                    /\ result' = Undefined
               ELSE /\ log' = log \o <<"Step 3", "Pipeline completed">>
                    /\ result' = [messages |-> messagesRet.value,
                                  analysis |-> analysisRet.value,
                                  visData |-> r.ret.value]
    /\ pipc' = "done"
    /\ UNCHANGED <<entry, chatFile, parsedFile, analysisFile, messagesRet, analysisRet,
                   parserVars, temporalVars, relationVars, sentimentVars>>

\* processAnalysis called by itself on the parsed file
AnalysisAlone ==
    /\ pipc = "direct"
    /\ \E writeOk \in BOOLEAN :
        LET r == ProcessAnalysis(parsedFile, analysisFile, writeOk)
        IN  /\ analysisRet' = r.ret
            /\ analysisFile' = r.file
            /\ log' = Append(log, IF r.ret.isNull THEN "Error analyzing chat" ELSE "Analysis complete")
    /\ pipc' = "done"
    /\ UNCHANGED <<entry, chatFile, parsedFile, visFile, messagesRet, visRet, result,
                   parserVars, temporalVars, relationVars, sentimentVars>>

PipelineNext == ParseStage \/ AnalysisStage \/ VisualizationStage \/ AnalysisAlone

\* ---- inputs of the pipeline specification ----
ChatMessageSet == [sender : {"Ann", "Bob"}, timestamp : {0, 5}]
ChatMessageLists == SeqsUpTo(ChatMessageSet, MaxChatMessages)
OldAnalysis == [basicStats |-> [messageCount |-> 1, uniqueSenders |-> {"Ann"}, durationMinutes |-> 0]]

PipelineInit ==
    /\ entry \in {"runPipeline", "processAnalysis"}
    /\ \/ /\ entry = "runPipeline"
          /\ chatFile \in [readable : BOOLEAN, messages : ChatMessageLists]
          /\ parsedFile \in {NoFile, OldFile(ToJson(<<[sender |-> "Ann", timestamp |-> 0]>>))}
          /\ pipc = "step1"
       \/ /\ entry = "processAnalysis"
          /\ chatFile = [readable |-> FALSE, messages |-> <<>>]
          /\ parsedFile \in {NoFile} \cup {OldFile(ToJson(m)) : m \in ChatMessageLists}
          /\ pipc = "direct"
    /\ analysisFile \in {NoFile, OldFile(OldAnalysis)}
    /\ visFile = NoFile
    /\ messagesRet = Null
    /\ analysisRet = Null
    /\ visRet = Null
    /\ result = Undefined
    /\ log = <<>>
    /\ ParserIdle
    /\ TemporalIdle
    /\ RelationIdle
    /\ SentimentIdle

SpecPipeline == PipelineInit /\ [][PipelineNext]_vars

(***************************************************************************)
(* Claims about runPipeline and processAnalysis                            *)
(***************************************************************************)
Logged(entryText) == \E k \in 1..Len(log) : log[k] = entryText
Stage1Failed == messagesRet.isNull \/ Len(messagesRet.value) = 0
Stage2Failed == Logged("Step 2") /\ analysisRet.isNull
Stage3Failed == Logged("Step 3") /\ visRet.isNull
PipelineOver == entry = "runPipeline" /\ pipc = "done"

\* the analysis stage starts only after a non-empty parse result, the
\* visualization stage only after an analysis; after a failed stage no later
\* stage runs and nothing is returned; otherwise all three results are
FailFast ==
    /\ Logged("Step 2") => (~messagesRet.isNull /\ Len(messagesRet.value) > 0)
    /\ Logged("Step 3") => ~analysisRet.isNull
    /\ PipelineOver =>
        /\ Stage1Failed =>
              /\ ~Logged("Step 2") /\ ~Logged("Step 3")
              /\ ~analysisFile.written /\ ~visFile.written
              /\ result = Undefined
        /\ Stage2Failed =>
              /\ ~Logged("Step 3")
              /\ ~analysisFile.written /\ ~visFile.written
              /\ result = Undefined
        /\ Stage3Failed => (~visFile.written /\ result = Undefined)
        /\ ~(Stage1Failed \/ Stage2Failed \/ Stage3Failed) =>
              result = [messages |-> messagesRet.value, analysis |-> analysisRet.value,
                        visData |-> visRet.value]

\* C9 as stated: fail-fast, and after a failed stage no output of an earlier
\* stage is left behind by the run.
C9_NoPartialReport ==
    /\ FailFast
    /\ (PipelineOver /\ Stage2Failed) => ~parsedFile.written
    /\ (PipelineOver /\ Stage3Failed) => (~parsedFile.written /\ ~analysisFile.written)

\* C9, amended: fail-fast as above, and nothing is returned after a failed
\* stage; the files the completed stages wrote stay in the output directory
\* (parsed_messages.json after a failed analysis, analysis_results.json,
\* holding the report, after a failed visualization).
C9_FailFastFilesStay ==
    /\ FailFast
    /\ (PipelineOver /\ Stage2Failed) =>
          (parsedFile.written /\ parsedFile.data = ToJson(messagesRet.value))
    /\ (PipelineOver /\ Stage3Failed) =>
          /\ parsedFile.written
          /\ analysisFile.written /\ analysisFile.data = analysisRet.value

\* the visualization stage failed after the analysis stage had written its
\* report: nothing returned, the report file left
C9_Witness ==
    /\ PipelineOver
    /\ Stage3Failed
    /\ result = Undefined
    /\ analysisFile.written
    /\ analysisFile.data.basicStats.messageCount = 2

\* C10: for an empty message list no report comes out: processAnalysis on a
\* parsed file holding the empty list returns null and leaves the analysis
\* file as it was, every analysis returned or written is of at least one
\* message, and runPipeline with an empty parse result ends before Step 2.
C10_EmptyInputFails ==
    /\ [][(pipc \in {"direct", "step2"} /\ parsedFile.exists /\ parsedFile.data = <<>>)
            => (analysisRet'.isNull /\ analysisFile' = analysisFile)]_vars
    /\ [](~analysisRet.isNull => analysisRet.value.basicStats.messageCount > 0)
    /\ [](analysisFile.written => analysisFile.data.basicStats.messageCount > 0)
    /\ []((entry = "runPipeline" /\ ~messagesRet.isNull /\ Len(messagesRet.value) = 0) =>
            /\ pipc = "done"
            /\ ~Logged("Step 2")
            /\ Logged("Pipeline aborted")
            /\ analysisRet.isNull
            /\ result = Undefined)

\* processAnalysis ran on a parsed file holding the empty list, returned
\* null and wrote nothing
C10_Witness ==
    /\ entry = "processAnalysis"
    /\ pipc = "done"
    /\ parsedFile.exists /\ parsedFile.data = <<>>
    /\ analysisRet.isNull
    /\ ~analysisFile.written
    /\ Logged("Error analyzing chat")

\* runPipeline on a readable chat without messages ended after Step 1
C10_PipelineWitness ==
    /\ entry = "runPipeline"
    /\ pipc = "done"
    /\ ~messagesRet.isNull /\ Len(messagesRet.value) = 0
    /\ log = <<"Step 1", "Pipeline aborted">>

(***************************************************************************)
(* data-analyzer.js: analyzeSentiment                                      *)
(***************************************************************************)
\* A message is [sender, timestamp, content, isMedia, isDeleted]; a
\* timestamp is [month, minute], the month being what
\* timestamp.toISOString().slice(0, 7) keeps of it.
MonthOf(timestamp) == timestamp.month

\* timestamp.toISOString()
ToISOString(timestamp) == [iso |-> timestamp]

\* sentimentAnalyzer.analyze(content): the score of the text and the score
\* per word (the scorer is an external library; these are its values on the
\* texts of the model)
Analyze(content) ==
    LET score == IF content = "good" THEN 3
                 ELSE IF content = "bad" THEN 0 - 3
                 ELSE 0
        words == IF content \in {"good", "bad"} THEN 1 ELSE 2
    IN  [score |-> score, comparative |-> [num |-> score, den |-> words]]

ScoredUnlessMedia(message) == ~message.isMedia

\* if (!message.isMedia && !message.isDeleted)
Scored(message) == ~message.isMedia /\ ~message.isDeleted

\* the object pushed to sentimentTimeline
TimelineEntry(message) ==
    LET r == Analyze(message.content)
    IN  [timestamp |-> ToISOString(message.timestamp),
         sender |-> message.sender,
         score |-> r.score,
         comparative |-> r.comparative]

SInLoop == spc = "loop" /\ sIndex < Len(sMessages)

\* the callback on a message that is scored
ScoreMessage ==
    /\ SInLoop
    /\ Scored(sMessages[sIndex + 1])
    /\ LET message == sMessages[sIndex + 1]
           r == Analyze(message.content)
       IN  /\ sentimentByMonth' = PushTo(sentimentByMonth, MonthOf(message.timestamp), r.score)
           /\ sentimentBySender' = PushTo(sentimentBySender, message.sender, r.score)
           /\ sentimentTimeline' = Append(sentimentTimeline, TimelineEntry(message))
    /\ sIndex' = sIndex + 1
    /\ UNCHANGED <<sMessages, avgSentimentByMonth, avgSentimentBySender, spc,
                   parserVars, temporalVars, relationVars, pipelineVars>>

\* the callback on a media or deleted message
SkipMessage ==
    /\ SInLoop
    /\ ~Scored(sMessages[sIndex + 1])
    /\ sIndex' = sIndex + 1
    /\ UNCHANGED <<sMessages, sentimentByMonth, sentimentBySender, sentimentTimeline,
                   avgSentimentByMonth, avgSentimentBySender, spc,
                   parserVars, temporalVars, relationVars, pipelineVars>>

\* scores.reduce(...) / scores.length, for each entry of the table
Averages(table) ==
    [key \in DOMAIN table |-> [sum |-> SumSeq(table[key]), count |-> Len(table[key])]]

\* the two loops after the forEach, and the return
AverageSentiment ==
    /\ spc = "loop"
    /\ sIndex = Len(sMessages)
    /\ avgSentimentByMonth' = Averages(sentimentByMonth)
    /\ avgSentimentBySender' = Averages(sentimentBySender)
    /\ spc' = "done"
    /\ UNCHANGED <<sMessages, sIndex, sentimentByMonth, sentimentBySender, sentimentTimeline,
                   parserVars, temporalVars, relationVars, pipelineVars>>

SentimentNext == ScoreMessage \/ SkipMessage \/ AverageSentiment

\* ---- inputs of the sentiment specification: the k-th message has minute
\* k of its month ----
SSenders == {"Ann", "Bob"}
SMonths == {1, 2}
\* content and flags as the parser sets them
SKinds ==
    {[content |-> "good", isMedia |-> FALSE, isDeleted |-> FALSE],
     [content |-> "bad", isMedia |-> FALSE, isDeleted |-> FALSE],
     [content |-> "image omitted", isMedia |-> TRUE, isDeleted |-> FALSE],
     [content |-> "This message was deleted", isMedia |-> FALSE, isDeleted |-> TRUE]}
SChoices == [sender : SSenders, month : SMonths, kind : SKinds]
SMessagesOf(choice) ==
    [k \in 1..Len(choice) |->
        [sender |-> choice[k].sender,
         timestamp |-> [month |-> choice[k].month, minute |-> k],
         content |-> choice[k].kind.content,
         isMedia |-> choice[k].kind.isMedia,
         isDeleted |-> choice[k].kind.isDeleted]]

SentimentInit ==
    /\ \E choice \in SeqsUpTo(SChoices, MaxSentimentMessages) : sMessages = SMessagesOf(choice)
    /\ sIndex = 0
    /\ sentimentByMonth = <<>>
    /\ sentimentBySender = <<>>
    /\ sentimentTimeline = <<>>
    /\ avgSentimentByMonth = <<>>
    /\ avgSentimentBySender = <<>>
    /\ spc = "loop"
    /\ ParserIdle
    /\ TemporalIdle
    /\ RelationIdle
    /\ PipelineIdle

SpecSentiment == SentimentInit /\ [][SentimentNext]_vars

(***************************************************************************)
(* Claims about analyzeSentiment                                           *)
(***************************************************************************)
\* positions, among the first n messages, of those neither media nor deleted
KeptPositions(n) == {k \in 1..n : ~sMessages[k].isMedia /\ ~sMessages[k].isDeleted}

\* the position of the j-th kept message
KthKept(j, n) == CHOOSE k \in KeptPositions(n) : Cardinality({i \in KeptPositions(n) : i < k}) = j - 1

\* the scores, in message order, of the kept messages among the first n
\* that satisfy Sel
RECURSIVE KeptScores(_, _)
KeptScores(Sel(_), n) ==
    IF n = 0 THEN <<>>
    ELSE KeptScores(Sel, n - 1)
         \o (IF n \in KeptPositions(n) /\ Sel(sMessages[n])
             THEN <<Analyze(sMessages[n].content).score>> ELSE <<>>)

ScoresOf(table, key) == IF key \in DOMAIN table THEN table[key] ELSE <<>>

\* C11: the timeline has exactly one entry per message that is neither
\* media nor deleted, in message order (the j-th entry is of the j-th such
\* message), none for a media or deleted message, and the per-month and
\* per-sender score lists and averages are over these messages only.
C11_SentimentSkipsMediaAndDeleted ==
    /\ spc \in {"loop", "done"} =>
        /\ Len(sentimentTimeline) = Cardinality(KeptPositions(sIndex))
        /\ \A j \in 1..Len(sentimentTimeline) :
            LET m == sMessages[KthKept(j, sIndex)]
            IN  /\ sentimentTimeline[j].timestamp.iso = m.timestamp
                /\ sentimentTimeline[j].sender = m.sender
                /\ sentimentTimeline[j].score = Analyze(m.content).score
        /\ \A mo \in SMonths :
            ScoresOf(sentimentByMonth, mo)
                = KeptScores(LAMBDA m : m.timestamp.month = mo, sIndex)
        /\ \A s \in SSenders :
            ScoresOf(sentimentBySender, s) = KeptScores(LAMBDA m : m.sender = s, sIndex)
    /\ spc = "done" =>
        /\ \A mo \in DOMAIN avgSentimentByMonth :
            /\ avgSentimentByMonth[mo].count
                  = Cardinality({k \in KeptPositions(Len(sMessages)) :
                                    sMessages[k].timestamp.month = mo})
            /\ avgSentimentByMonth[mo].count > 0
            /\ avgSentimentByMonth[mo].sum
                  = SumSeq(KeptScores(LAMBDA m : m.timestamp.month = mo, Len(sMessages)))
        /\ \A s \in DOMAIN avgSentimentBySender :
            /\ avgSentimentBySender[s].count
                  = Cardinality({k \in KeptPositions(Len(sMessages)) : sMessages[k].sender = s})
            /\ avgSentimentBySender[s].count > 0
            /\ avgSentimentBySender[s].sum
                  = SumSeq(KeptScores(LAMBDA m : m.sender = s, Len(sMessages)))

\* a text message between a media and a deleted message of the same sender
\* and month: one timeline entry, averages over one score
C11_Witness ==
    /\ spc = "done"
    /\ Len(sMessages) = 3
    /\ sMessages[1].isMedia /\ sMessages[3].isDeleted
    /\ sMessages[2].content = "good"
    /\ sMessages[1].sender = sMessages[2].sender /\ sMessages[3].sender = sMessages[2].sender
    /\ Len(sentimentTimeline) = 1
    /\ sentimentTimeline[1].timestamp.iso.minute = 2
    /\ avgSentimentBySender[sMessages[2].sender] = [sum |-> 3, count |-> 1]

====
